---------------------------- MODULE Spec2Model ----------------------------
(***************************************************************************)
(* Model of UseCase2_DeltaBusinessCase.py: the aggregators of the Delta    *)
(* flight performance dashboard.  A table (pandas DataFrame) is a sequence *)
(* of row records; each aggregator is an operator computed the way the     *)
(* pandas calls compute it, and one action per aggregator applies it to    *)
(* the loaded table and keeps what it built.                               *)
(*                                                                         *)
(* float64 values are exact rationals <<n, d>> in lowest terms with d > 0; *)
(* d = 0 holds the non-finite values: <<1, 0>> is inf, <<-1, 0>> is -inf   *)
(* and <<0, 0>> is NaN.  Rounding of float64 is not modelled.              *)
(***************************************************************************)
EXTENDS Integers, Sequences, FiniteSets

VARIABLES flights_df, columns, call, result

vars == <<flights_df, columns, call, result>>

----------------------------------------------------------------------------
(* Bounds of the input tables.                                             *)

\* copies of each row kind in the tables of Spec
MaxCopies == 1
\* copies of each row kind in the tables of SpecMetric
MaxMetricCopies == 4
\* copies of each row kind in the tables of SpecHeatmap
MaxBinCopies == 1
\* copies of each row kind in the tables of SpecRelative
MaxRelCopies == 2
\* routes of each profile in the tables of SpecRoutes
MaxPerProfile == 6
\* copies of each row kind in the tables of SpecVolume
MaxVolCopies == 1
\* last day of the date input in SpecSession
MaxDate == 2
\* copies of each row kind in the tables of SpecSession
MaxLoadedCopies == 1
\* cancelled flights of the airline at each airport in SpecCancelled
MaxCancelled == 10
\* copies of each row kind in the tables of SpecHourly
MaxHourCopies == 1

----------------------------------------------------------------------------
(* float64 arithmetic (IEEE division by zero, NaN propagation).            *)

Abs(n) == IF n < 0 THEN -n ELSE n

Sign(n) == IF n < 0 THEN -1 ELSE IF n > 0 THEN 1 ELSE 0

RECURSIVE Gcd(_, _)
Gcd(a, b) == IF b = 0 THEN a ELSE Gcd(b, a % b)

Norm(n, d) ==
    IF d = 0 THEN <<Sign(n), 0>>
    ELSE LET g == Gcd(Abs(n), Abs(d))
         IN  <<(Sign(d) * n) \div g, Abs(d) \div g>>

F(n) == <<n, 1>>

NaN == <<0, 0>>

IsNaN(a) == a = NaN

FDiv(a, b) ==
    IF IsNaN(a) \/ IsNaN(b) THEN NaN
    ELSE Norm(a[1] * b[2] * (IF b[1] < 0 THEN -1 ELSE 1), a[2] * Abs(b[1]))

FMul(a, b) == IF IsNaN(a) \/ IsNaN(b) THEN NaN ELSE Norm(a[1] * b[1], a[2] * b[2])

FSub(a, b) ==
    IF IsNaN(a) \/ IsNaN(b) THEN NaN
    ELSE IF a[2] = 0 /\ b[2] = 0
         THEN (IF a[1] = b[1] THEN NaN ELSE a)
         ELSE IF a[2] = 0 THEN a
         ELSE IF b[2] = 0 THEN <<-b[1], 0>>
         ELSE Norm(a[1] * b[2] - b[1] * a[2], a[2] * b[2])

FLess(a, b) ==
    IF IsNaN(a) \/ IsNaN(b) THEN FALSE
    ELSE IF a[2] = 0 /\ b[2] = 0 THEN a[1] < b[1]
    ELSE IF a[2] = 0 THEN a[1] < 0
    ELSE IF b[2] = 0 THEN b[1] > 0
    ELSE a[1] * b[2] < b[1] * a[2]

----------------------------------------------------------------------------
(* Sequence helpers.                                                       *)

RECURSIVE SumSeq(_)
SumSeq(s) == IF s = <<>> THEN 0 ELSE Head(s) + SumSeq(Tail(s))

RECURSIVE Copies(_, _)
Copies(r, n) == IF n = 0 THEN <<>> ELSE <<r>> \o Copies(r, n - 1)

RECURSIVE Flatten(_)
Flatten(ss) == IF ss = <<>> THEN <<>> ELSE Head(ss) \o Flatten(Tail(ss))

Range(s) == {s[i] : i \in DOMAIN s}

\* the table without its i-th row
Drop(df, i) == SubSeq(df, 1, i - 1) \o SubSeq(df, i + 1, Len(df))

\* the table holding c[i] copies of kinds[i], for each i
TableOf(kinds, c) == Flatten([i \in DOMAIN kinds |-> Copies(kinds[i], c[i])])

Tables(kinds, max) == {TableOf(kinds, c) : c \in [DOMAIN kinds -> 0..max]}

----------------------------------------------------------------------------
(* Column values and their order.  StrOrder lists the strings used as      *)
(* group keys in Python's string order, which is the order a groupby       *)
(* (sort=True) gives its groups.                                           *)

StrOrder ==
    <<"ATL", "American Airlines", "Atlanta", "BOS", "Boston", "CDG",
      "Chicago", "DEN", "DTW", "Delta Air Lines", "Denver", "Detroit",
      "Domestic", "Friday", "Hartsfield-Jackson", "International", "JFK",
      "LAX", "Los Angeles", "MIA", "MSP", "Miami", "Minneapolis", "Monday",
      "New York", "ORD", "PHX", "Paris", "Phoenix", "SAN", "SEA", "SFO",
      "SLC", "Salt Lake City", "San Diego", "San Francisco", "Saturday",
      "Seattle", "Sunday", "Thursday", "Toronto", "Tuesday", "Wednesday",
      "YYZ">>

StrRank == [s \in Range(StrOrder) |-> CHOOSE i \in DOMAIN StrOrder : StrOrder[i] = s]

IntCols == {"dep_delay", "arr_latitude", "arr_longitude", "flight_date"}

FloatCols == {"hour"}

ValLess(col, x, y) ==
    IF col \in IntCols THEN x < y
    ELSE IF col \in FloatCols THEN FLess(x, y)
    ELSE StrRank[x] < StrRank[y]

RECURSIVE KeyLess(_, _, _)
KeyLess(cols, a, b) ==
    IF cols = <<>> THEN FALSE
    ELSE IF ValLess(Head(cols), Head(a), Head(b)) THEN TRUE
    ELSE IF ValLess(Head(cols), Head(b), Head(a)) THEN FALSE
    ELSE KeyLess(Tail(cols), Tail(a), Tail(b))

KeyOf(r, cols) == [i \in DOMAIN cols |-> r[cols[i]]]

\* dropna=False: no row is dropped for its key
keeps_rows_with_NaN_key(r, cols) == FALSE

\* a groupby drops the rows with a NaN key (dropna=True)
HasNaNKey(r, cols) == \E i \in DOMAIN cols : cols[i] \in FloatCols /\ IsNaN(r[cols[i]])

RECURSIVE SortKeys(_, _)
SortKeys(S, cols) ==
    IF S = {} THEN <<>>
    ELSE LET k == CHOOSE x \in S : \A y \in S : ~KeyLess(cols, y, x)
         IN  <<k>> \o SortKeys(S \ {k}, cols)

\* the group keys of df.groupby(cols), in the order the groupby gives them
GroupKeys(df, cols) ==
    SortKeys({KeyOf(df[i], cols) : i \in {j \in DOMAIN df : ~HasNaNKey(df[j], cols)}}, cols)

\* the rows of a group
Group(df, cols, k) == SelectSeq(df, LAMBDA r : KeyOf(r, cols) = k)

Column(df, col) == [i \in DOMAIN df |-> df[i][col]]

\* Series.mean(): NaN for an empty series
Mean(s) == Norm(SumSeq(s), Len(s))

----------------------------------------------------------------------------
(* The flight table: flights_df holds one record per row of                *)
(* dashboard_flights_data.csv and columns the names of its columns, with   *)
(* the columns the aggregators read.  flight_date is the day number        *)
(* counted from Monday 2024-01-01 (the column after pd.to_datetime), or    *)
(* the text of the csv, "2024-01-05" held as the number its digits spell   *)
(* (20240105); scheduled_departure_datetime is the text of the csv.        *)

DepAirports ==
    <<[iata |-> "ATL", name |-> "Atlanta"],
      [iata |-> "BOS", name |-> "Boston"],
      [iata |-> "DTW", name |-> "Detroit"],
      [iata |-> "JFK", name |-> "New York"],
      [iata |-> "MSP", name |-> "Minneapolis"],
      [iata |-> "SLC", name |-> "Salt Lake City"]>>

ArrAirports ==
    <<[iata |-> "DEN", name |-> "Denver", country |-> "US", lat |-> 40, lon |-> -105],
      [iata |-> "LAX", name |-> "Los Angeles", country |-> "US", lat |-> 34, lon |-> -118],
      [iata |-> "MIA", name |-> "Miami", country |-> "US", lat |-> 26, lon |-> -80],
      [iata |-> "ORD", name |-> "Chicago", country |-> "US", lat |-> 42, lon |-> -88],
      [iata |-> "PHX", name |-> "Phoenix", country |-> "US", lat |-> 33, lon |-> -112],
      [iata |-> "SAN", name |-> "San Diego", country |-> "US", lat |-> 33, lon |-> -117],
      [iata |-> "SEA", name |-> "Seattle", country |-> "US", lat |-> 47, lon |-> -122],
      [iata |-> "SFO", name |-> "San Francisco", country |-> "US", lat |-> 38, lon |-> -122],
      [iata |-> "CDG", name |-> "Paris", country |-> "FR", lat |-> 49, lon |-> 3],
      [iata |-> "YYZ", name |-> "Toronto", country |-> "CA", lat |-> 44, lon |-> -80]>>

Dep(code) == CHOOSE a \in Range(DepAirports) : a.iata = code

Arr(code) == CHOOSE a \in Range(ArrAirports) : a.iata = code

FlightRecord(date, sched, airline, dep, arr, delay, status) ==
    [flight_date |-> date,
     scheduled_departure_datetime |-> sched,
     airline |-> airline,
     dep_iata |-> dep.iata,
     dep_airport |-> dep.name,
     arr_iata |-> arr.iata,
     arr_airport |-> arr.name,
     arr_country |-> arr.country,
     arr_latitude |-> arr.lat,
     arr_longitude |-> arr.lon,
     dep_delay |-> delay,
     flight_status |-> status]

\* the columns of the csv that the aggregators read
CsvColumns == DOMAIN FlightRecord(0, "", "", DepAirports[1], ArrAirports[1], 0, "")

Delta == "Delta Air Lines"

American == "American Airlines"

Airlines == {Delta, American}

Morning == "2024-01-01 06:30:00"

Evening == "2024-01-05 17:05:00"

Unparsable == "n/a"

\* a flight_date cell that still holds the text of the csv
IsDateText(v) == v >= 10000

\* days of 2024 before each month
DaysBeforeMonth == <<0, 31, 60, 91, 121, 152, 182, 213, 244, 274, 305, 335>>

\* pd.to_datetime of a flight_date cell: a text of 2024 is parsed to its
\* Timestamp, a Timestamp stays as it is
pd_to_datetime(v) ==
    IF IsDateText(v)
    THEN DaysBeforeMonth[(v \div 100) % 100] + (v % 100) - 1
    ELSE v

\* whether the flight_date column has the dtype datetime64, so that .dt
\* works on it (the dtype is read off the cells: a table without rows
\* counts as converted)
is_datetime64(df) == \A i \in DOMAIN df : ~IsDateText(df[i].flight_date)

----------------------------------------------------------------------------
(* aggregate_delay_metric                                                  *)

\* cancelled flights alone left out
not_cancelled(r) == r.flight_status # "cancelled"

\* the status filter every delay aggregator starts with
Operational(r) == r.flight_status # "cancelled" /\ r.flight_status # "diverted"

\* on-time through 15 minutes, instead of under 15
on_time_through_15(r) == IF r.dep_delay <= 15 THEN 1 ELSE 0

on_time(r) == IF r.dep_delay < 15 THEN 1 ELSE 0

\* arr_iata is the collection of codes isin() takes; {} stands for None
\* (and for an empty list, as falsy as None)
aggregate_delay_metric(df, groupby_col, arr_iata) ==
    LET operational == SelectSeq(df, Operational)
        flights_copy == IF arr_iata # {}
                        THEN SelectSeq(operational, LAMBDA r : r.arr_iata \in arr_iata)
                        ELSE operational
        keys == GroupKeys(flights_copy, groupby_col)
        Agg(k) ==
            LET g == Group(flights_copy, groupby_col, k)
                ontime_count == SumSeq([i \in DOMAIN g |-> on_time(g[i])])
                total_flights == Len(g)
                pct_ontime == FMul(FDiv(F(ontime_count), F(total_flights)), F(100))
            IN  [key |-> k,
                 ontime_count |-> ontime_count,
                 total_flights |-> total_flights,
                 pct_ontime |-> pct_ontime,
                 pct_delay |-> FSub(F(100), pct_ontime)]
    IN  [i \in DOMAIN keys |-> Agg(keys[i])]

----------------------------------------------------------------------------
(* The operations.  Each call of an aggregator reads the loaded table and  *)
(* keeps its arguments and what it built.                                  *)

NoCall == [fn |-> "none"]

GroupByLists == {<<"airline">>, <<"dep_iata", "airline">>}

ArrIataArgs == {{}, {"LAX"}}

Call_aggregate_delay_metric ==
    \E groupby_col \in GroupByLists, arr_iata \in ArrIataArgs :
        /\ call' = [fn |-> "aggregate_delay_metric",
                    groupby_col |-> groupby_col, arr_iata |-> arr_iata]
        /\ result' = aggregate_delay_metric(flights_df, groupby_col, arr_iata)
        /\ UNCHANGED <<flights_df, columns>>

----------------------------------------------------------------------------
(* SpecMetric: aggregate_delay_metric on tables of on-time, boundary and   *)
(* late flights.                                                           *)

MetricKinds ==
    <<FlightRecord(0, Morning, Delta, Dep("ATL"), Arr("LAX"), 5, "normal"),
      FlightRecord(0, Morning, Delta, Dep("ATL"), Arr("LAX"), 90, "normal"),
      FlightRecord(1, Morning, Delta, Dep("JFK"), Arr("CDG"), 15, "normal"),
      FlightRecord(1, Evening, American, Dep("ATL"), Arr("LAX"), 14, "normal"),
      FlightRecord(0, Morning, Delta, Dep("ATL"), Arr("LAX"), 5, "cancelled")>>

InitMetric ==
    /\ flights_df \in Tables(MetricKinds, MaxMetricCopies)
    /\ columns = CsvColumns
    /\ call = NoCall
    /\ result = <<>>

NextMetric == Call_aggregate_delay_metric

SpecMetric == InitMetric /\ [][NextMetric]_vars


\* the rows of the table aggregate_delay_metric was called on that it
\* counts: operational, and bound for arr_iata when one is given
MetricRows ==
    {i \in DOMAIN flights_df :
        /\ flights_df[i].flight_status \notin {"cancelled", "diverted"}
        /\ (call.arr_iata = {} \/ flights_df[i].arr_iata \in call.arr_iata)}

MetricRowsOf(k) == {i \in MetricRows : KeyOf(flights_df[i], call.groupby_col) = k}

----------------------------------------------------------------------------
(* delays_heatmap                                                          *)

inf == <<1, 0>>

neg_inf == <<-1, 0>>

bins == <<neg_inf, F(0), F(15), F(30), F(60), F(120), inf>>

\* the labels of the source, whose dashes are en dashes
labels == <<"Early/On time", "0-15 min", "15-30 min", "30-60 min", "1-2 hrs", "2+ hrs">>

NoBin == "NaN"

\* pd.cut(x, bins=edges, labels=names, right=right) of one value
cut(x, edges, names, right) ==
    LET In(i) == IF right
                 THEN FLess(edges[i], F(x)) /\ ~FLess(edges[i + 1], F(x))
                 ELSE ~FLess(F(x), edges[i]) /\ FLess(F(x), edges[i + 1])
    IN  IF \E i \in DOMAIN names : In(i)
        THEN names[CHOOSE i \in DOMAIN names : In(i)]
        ELSE NoBin

\* bins closed on the left: right=False
delay_bin_left_closed(dep_delay) == cut(dep_delay, bins, labels, FALSE)

delay_bin(dep_delay) == cut(dep_delay, bins, labels, TRUE)

\* observed=True: only the bins that occur become columns
bin_columns_observed(flights_copy) ==
    SelectSeq(labels, LAMBDA l : \E i \in DOMAIN flights_copy : flights_copy[i].delay_bin = l)

\* observed=False: every category of delay_bin is a column, in category order
bin_columns(flights_copy) == labels

delays_heatmap(df, var, airline) ==
    LET filtered == SelectSeq(df, LAMBDA r : r.airline = airline /\ Operational(r))
        flights_copy ==
            [i \in DOMAIN filtered |->
                [c \in DOMAIN filtered[i] \cup {"delay_bin"} |->
                    IF c = "delay_bin" THEN delay_bin(filtered[i].dep_delay)
                    ELSE filtered[i][c]]]
        index == GroupKeys(flights_copy, <<var>>)
        bin_cols == bin_columns(flights_copy)
        delay_counts ==
            [i \in DOMAIN index |->
                [j \in DOMAIN bin_cols |->
                    Len(SelectSeq(flights_copy,
                        LAMBDA r : r[var] = index[i][1] /\ r.delay_bin = bin_cols[j]))]]
        airline_delay_proportions ==
            [i \in DOMAIN index |->
                [j \in DOMAIN bin_cols |->
                    FDiv(F(delay_counts[i][j]), F(SumSeq(delay_counts[i])))]]
    IN  [flights_copy |-> flights_copy,
         index |-> [i \in DOMAIN index |-> index[i][1]],
         columns |-> bin_cols,
         delay_counts |-> delay_counts,
         airline_delay_proportions |-> airline_delay_proportions]

HeatmapVars == {"dep_iata", "airline"}

Call_delays_heatmap ==
    \E var \in HeatmapVars, airline \in Airlines :
        /\ call' = [fn |-> "delays_heatmap", var |-> var, airline |-> airline]
        /\ result' = delays_heatmap(flights_df, var, airline)
        /\ UNCHANGED <<flights_df, columns>>

----------------------------------------------------------------------------
(* SpecHeatmap: delays_heatmap on tables of flights at and around the bin  *)
(* edges.                                                                  *)

HeatmapKinds ==
    <<FlightRecord(0, Morning, Delta, Dep("ATL"), Arr("LAX"), 0, "normal"),
      FlightRecord(0, Morning, Delta, Dep("ATL"), Arr("LAX"), 15, "normal"),
      FlightRecord(0, Morning, Delta, Dep("ATL"), Arr("LAX"), 30, "normal"),
      FlightRecord(0, Morning, Delta, Dep("ATL"), Arr("LAX"), 60, "normal"),
      FlightRecord(0, Morning, Delta, Dep("ATL"), Arr("LAX"), 120, "normal"),
      FlightRecord(0, Morning, Delta, Dep("ATL"), Arr("LAX"), 121, "normal"),
      FlightRecord(1, Evening, Delta, Dep("JFK"), Arr("CDG"), -5, "normal"),
      FlightRecord(1, Evening, Delta, Dep("ATL"), Arr("LAX"), 30, "diverted"),
      FlightRecord(1, Evening, American, Dep("ATL"), Arr("LAX"), 16, "normal")>>

InitHeatmap ==
    /\ flights_df \in Tables(HeatmapKinds, MaxBinCopies)
    /\ columns = CsvColumns
    /\ call = NoCall
    /\ result = <<>>

NextHeatmap == Call_delays_heatmap

SpecHeatmap == InitHeatmap /\ [][NextHeatmap]_vars

\* the rows of the table delays_heatmap was called on that it keeps
HeatmapRows ==
    {i \in DOMAIN flights_df :
        /\ flights_df[i].airline = call.airline
        /\ flights_df[i].flight_status \notin {"cancelled", "diverted"}}

\* the bin of a delay, by the edges the claim states
BinByEdges(d) ==
    IF d <= 0 THEN 1
    ELSE IF d <= 15 THEN 2
    ELSE IF d <= 30 THEN 3
    ELSE IF d <= 60 THEN 4
    ELSE IF d <= 120 THEN 5
    ELSE 6

\* C3: delays_heatmap assigns every non-excluded row (target airline, not
\* cancelled, not diverted) exactly one of the six bins, the one whose
\* right-closed range (-inf,0], (0,15], (15,30], (30,60], (60,120], (120,inf)
\* holds its dep_delay, and counts it in that bin's column only.
C3_RightClosedBins ==
    call.fn = "delays_heatmap" =>
        /\ Len(result.flights_copy) = Cardinality(HeatmapRows)
        /\ \A i \in DOMAIN result.flights_copy :
              LET r == result.flights_copy[i]
              IN  /\ r.airline = call.airline
                  /\ Cardinality({b \in DOMAIN labels : r.delay_bin = labels[b]}) = 1
                  /\ r.delay_bin = labels[BinByEdges(r.dep_delay)]
        /\ \A i \in DOMAIN result.index, b \in DOMAIN labels :
              \E j \in DOMAIN result.columns :
                  /\ result.columns[j] = labels[b]
                  /\ result.delay_counts[i][j] =
                        Cardinality({k \in HeatmapRows :
                            /\ flights_df[k][call.var] = result.index[i]
                            /\ BinByEdges(flights_df[k].dep_delay) = b})

\* flights at exactly 0, 15, 30, 60 and 120 minutes, one per bin they close
C3_Witness ==
    /\ call.fn = "delays_heatmap"
    /\ call.var = "dep_iata"
    /\ \A d \in {0, 15, 30, 60, 120} :
          \E i \in DOMAIN result.flights_copy : result.flights_copy[i].dep_delay = d
    /\ \E i \in DOMAIN result.index :
          /\ result.index[i] = "ATL"
          /\ result.delay_counts[i] = <<1, 1, 1, 1, 1, 0>>

\* C4: the proportion matrix of delays_heatmap has one row per dimension
\* value present among the target airline's operational rows and exactly the
\* six bin columns in the fixed order; each cell is the fraction of the
\* row's flights in that bin (0 for a bin with none) and every row sums to 1.
C4_ProportionMatrix ==
    call.fn = "delays_heatmap" =>
        LET P == result.airline_delay_proportions
            RowsOf(v) == {k \in HeatmapRows : flights_df[k][call.var] = v}
        IN  /\ result.columns = labels
            /\ Len(result.columns) = 6
            /\ DOMAIN P = DOMAIN result.index
            /\ \A k \in HeatmapRows :
                  Cardinality({i \in DOMAIN result.index :
                      result.index[i] = flights_df[k][call.var]}) = 1
            /\ \A i \in DOMAIN P :
                  /\ RowsOf(result.index[i]) # {}
                  /\ DOMAIN P[i] = 1..6
                  /\ \A b \in 1..6 :
                        LET n == Cardinality({k \in RowsOf(result.index[i]) :
                                    BinByEdges(flights_df[k].dep_delay) = b})
                        IN  /\ P[i][b][2] > 0
                            /\ P[i][b][1] * Cardinality(RowsOf(result.index[i]))
                                  = n * P[i][b][2]
                            /\ (n = 0 => P[i][b] = F(0))
                  /\ LET Sum[b \in 0..6] ==
                             IF b = 0 THEN F(0)
                             ELSE Norm(Sum[b - 1][1] * P[i][b][2] + P[i][b][1] * Sum[b - 1][2],
                                       Sum[b - 1][2] * P[i][b][2])
                     IN  Sum[6] = F(1)

\* two departure airports, one with flights in some bins only
C4_Witness ==
    /\ call.fn = "delays_heatmap"
    /\ call.var = "dep_iata"
    /\ Len(result.index) = 2
    /\ \E i \in DOMAIN result.index :
          /\ \E b \in 1..6 : result.airline_delay_proportions[i][b] = F(0)
          /\ \E b \in 1..6 : result.airline_delay_proportions[i][b] = <<1, 3>>

----------------------------------------------------------------------------
(* relative_delay                                                          *)

\* the mean of the airports' means, instead of the mean over the rows
global_mean_of_airport_means(flights_copy) ==
    LET airports == GroupKeys(flights_copy, <<"dep_airport">>)
        means == [i \in DOMAIN airports |->
                     Mean(Column(Group(flights_copy, <<"dep_airport">>, airports[i]),
                                 "dep_delay"))]
        Sum[i \in 0..Len(means)] ==
            IF i = 0 THEN F(0)
            ELSE Norm(Sum[i - 1][1] * means[i][2] + means[i][1] * Sum[i - 1][2],
                      Sum[i - 1][2] * means[i][2])
    IN  FDiv(Sum[Len(means)], F(Len(means)))

global_mean_of(flights_copy) == Mean(Column(flights_copy, "dep_delay"))

relative_delay(df, airline) ==
    LET flights_copy == SelectSeq(df, LAMBDA r : r.airline = airline /\ Operational(r))
        global_mean == global_mean_of(flights_copy)
        airports == GroupKeys(flights_copy, <<"dep_airport">>)
        Row(k) ==
            LET mean_delay == Mean(Column(Group(flights_copy, <<"dep_airport">>, k),
                                          "dep_delay"))
            IN  [dep_airport |-> k[1],
                 mean_delay |-> mean_delay,
                 delay_ratio |-> FDiv(mean_delay, global_mean)]
    IN  [global_mean |-> global_mean,
         mean_delay_by_airport |-> [i \in DOMAIN airports |-> Row(airports[i])]]

Call_relative_delay ==
    \E airline \in Airlines :
        /\ call' = [fn |-> "relative_delay", airline |-> airline]
        /\ result' = relative_delay(flights_df, airline)
        /\ UNCHANGED <<flights_df, columns>>

----------------------------------------------------------------------------
(* SpecRelative: relative_delay on tables whose delays are early, zero and *)
(* late, so that the airline's mean delay is positive, zero or negative.   *)

RelativeKinds ==
    <<FlightRecord(0, Morning, Delta, Dep("ATL"), Arr("LAX"), 20, "normal"),
      FlightRecord(0, Morning, Delta, Dep("JFK"), Arr("CDG"), 5, "normal"),
      FlightRecord(0, Morning, Delta, Dep("ATL"), Arr("LAX"), -10, "normal"),
      FlightRecord(0, Morning, Delta, Dep("JFK"), Arr("CDG"), 10, "normal"),
      FlightRecord(0, Morning, Delta, Dep("DTW"), Arr("LAX"), 0, "normal"),
      FlightRecord(1, Evening, Delta, Dep("ATL"), Arr("LAX"), 90, "cancelled"),
      FlightRecord(1, Evening, American, Dep("ATL"), Arr("LAX"), 90, "normal")>>

InitRelative ==
    /\ flights_df \in Tables(RelativeKinds, MaxRelCopies)
    /\ columns = CsvColumns
    /\ call = NoCall
    /\ result = <<>>

NextRelative == Call_relative_delay

SpecRelative == InitRelative /\ [][NextRelative]_vars

\* the rows of the table relative_delay was called on that it keeps
RelativeRows ==
    {i \in DOMAIN flights_df :
        /\ flights_df[i].airline = call.airline
        /\ flights_df[i].flight_status \notin {"cancelled", "diverted"}}

RECURSIVE DelaySum(_)
DelaySum(I) ==
    IF I = {} THEN 0
    ELSE LET i == CHOOSE x \in I : TRUE
         IN  flights_df[i].dep_delay + DelaySum(I \ {i})

IsFinite(a) == a[2] > 0

\* C7: in relative_delay, globalMean is the mean dep_delay over all the
\* operational rows of the target airline, each departure airport has one
\* row with its own mean, and whenever globalMean > 0 the airport's
\* delayRatio times globalMean is its meanDelay and the ratio is above 1
\* exactly when meanDelay is above globalMean.
C7_RatioToGlobalMean ==
    call.fn = "relative_delay" =>
        LET gm == result.global_mean
            out == result.mean_delay_by_airport
            RowsOf(a) == {i \in RelativeRows : flights_df[i].dep_airport = a}
        IN  /\ (RelativeRows # {} =>
                  /\ IsFinite(gm)
                  /\ gm[1] * Cardinality(RelativeRows) = DelaySum(RelativeRows) * gm[2])
            /\ \A i \in RelativeRows :
                  Cardinality({j \in DOMAIN out :
                      out[j].dep_airport = flights_df[i].dep_airport}) = 1
            /\ \A j \in DOMAIN out :
                  LET m == out[j].mean_delay
                      q == out[j].delay_ratio
                      members == RowsOf(out[j].dep_airport)
                  IN  /\ members # {}
                      /\ IsFinite(m)
                      /\ m[1] * Cardinality(members) = DelaySum(members) * m[2]
                      /\ (IsFinite(gm) /\ gm[1] > 0 =>
                            /\ IsFinite(q)
                            /\ q[1] * gm[1] * m[2] = m[1] * q[2] * gm[2]
                            /\ (q[1] > q[2] <=> m[1] * gm[2] > gm[1] * m[2]))

\* airport means 20 and 5 under a global mean of 10: ratios 2 and 1/2
C7_Witness ==
    /\ call.fn = "relative_delay"
    /\ result.global_mean = F(10)
    /\ \E j, k \in DOMAIN result.mean_delay_by_airport :
          /\ result.mean_delay_by_airport[j].mean_delay = F(20)
          /\ result.mean_delay_by_airport[j].delay_ratio = F(2)
          /\ result.mean_delay_by_airport[k].mean_delay = F(5)
          /\ result.mean_delay_by_airport[k].delay_ratio = <<1, 2>>
    /\ Cardinality(RelativeRows) < Len(flights_df)

\* C8: when the target airline's globalMean is 0 (or undefined, the filtered
\* set being empty), the delayRatio of every airport is the undefined marker
\* NaN: not 0, not any other value.
C8_UndefinedRatioWhenGlobalMeanZero ==
    (call.fn = "relative_delay" /\ (result.global_mean = F(0) \/ IsNaN(result.global_mean))) =>
        \A j \in DOMAIN result.mean_delay_by_airport :
            IsNaN(result.mean_delay_by_airport[j].delay_ratio)

----------------------------------------------------------------------------
(* top_delayed_routes                                                      *)

RECURSIVE SortAsc(_)
SortAsc(s) ==
    IF s = <<>> THEN <<>>
    ELSE LET i == CHOOSE x \in DOMAIN s : \A y \in DOMAIN s : s[x] <= s[y]
         IN  <<s[i]>> \o SortAsc(Drop(s, i))

\* Series.median(): the middle value, the mean of the two middle values of
\* an even number of them, NaN of none
median(s) ==
    LET sorted == SortAsc(s)
        n == Len(s)
    IN  IF n = 0 THEN NaN
        ELSE IF n % 2 = 1 THEN F(sorted[(n + 1) \div 2])
        ELSE Norm(sorted[n \div 2] + sorted[n \div 2 + 1], 2)

\* rows in descending order of delay_rate; rows of equal rate keep the
\* order they had
RECURSIVE sort_by_delay_rate(_)
sort_by_delay_rate(rows) ==
    IF rows = <<>> THEN <<>>
    ELSE LET Top(x) == \A y \in DOMAIN rows : ~FLess(rows[x].delay_rate, rows[y].delay_rate)
             i == CHOOSE x \in DOMAIN rows : Top(x) /\ \A y \in 1..(x - 1) : ~Top(y)
         IN  <<rows[i]>> \o sort_by_delay_rate(Drop(rows, i))

\* flight_count >= median, instead of > median
at_or_above_median(flight_count, median_flight_count) ==
    ~FLess(F(flight_count), median_flight_count) /\ ~IsNaN(median_flight_count)

above_median(flight_count, median_flight_count) ==
    FLess(median_flight_count, F(flight_count))

\* DataFrame.nlargest(n, "delay_rate", keep="first")
nlargest_first(n, rows) ==
    LET sorted == sort_by_delay_rate(rows)
    IN  SubSeq(sorted, 1, IF Len(sorted) < n THEN Len(sorted) ELSE n)

\* DataFrame.nlargest(n, "delay_rate", keep="all"): the n largest and every
\* row that ties with the last of them
nlargest_all(n, rows) ==
    LET sorted == sort_by_delay_rate(rows)
    IN  IF Len(sorted) <= n THEN sorted
        ELSE SelectSeq(sorted, LAMBDA r : ~FLess(r.delay_rate, sorted[n].delay_rate))

\* keep="first": ties at the 10th place are cut
select_top10_first(route_df) == nlargest_first(10, route_df)

select_top10(route_df) == nlargest_all(10, route_df)

RouteCols == <<"dep_iata", "dep_airport", "arr_iata", "arr_airport">>

top_delayed_routes(df, airline, domestic) ==
    LET filtered == SelectSeq(df, LAMBDA r : r.airline = airline /\ Operational(r))
        flights_copy ==
            SelectSeq(filtered,
                LAMBDA r : IF domestic THEN r.arr_country = "US" ELSE r.arr_country # "US")
        keys == GroupKeys(flights_copy, RouteCols)
        Route(k) ==
            LET g == Group(flights_copy, RouteCols, k)
                flight_count == Len(g)
                delay_count == Len(SelectSeq(g, LAMBDA r : r.dep_delay > 60))
            IN  [dep_iata |-> k[1], dep_airport |-> k[2],
                 arr_iata |-> k[3], arr_airport |-> k[4],
                 flight_count |-> flight_count,
                 delay_count |-> delay_count,
                 delay_rate |-> FDiv(F(delay_count), F(flight_count))]
        all_routes == [i \in DOMAIN keys |-> Route(keys[i])]
        median_flight_count == median(Column(all_routes, "flight_count"))
        route_df ==
            sort_by_delay_rate(
                SelectSeq(all_routes,
                    LAMBDA r : above_median(r.flight_count, median_flight_count)))
    IN  [median_flight_count |-> median_flight_count,
         route_df |-> route_df,
         top10 |-> select_top10(route_df)]

Call_top_delayed_routes ==
    \E airline \in Airlines, domestic \in BOOLEAN :
        /\ call' = [fn |-> "top_delayed_routes", airline |-> airline, domestic |-> domestic]
        /\ result' = top_delayed_routes(flights_df, airline, domestic)
        /\ UNCHANGED <<flights_df, columns>>

----------------------------------------------------------------------------
(* SpecRoutes: top_delayed_routes on tables of many routes.  A table holds *)
(* a[1] routes of two flights both over 60 minutes late, a[2] routes of    *)
(* two flights with one late, a[3] routes of two flights on time, and      *)
(* single-flight routes: none, as many as the others, or one more.  It may *)
(* also hold two international routes, and rows of a cancelled flight and  *)
(* of another airline on its first route.                                  *)

USArrivals == SelectSeq(ArrAirports, LAMBDA a : a.country = "US")

\* the k-th domestic route
RouteDep(k) == DepAirports[((k - 1) % Len(DepAirports)) + 1]

RouteArr(k) == USArrivals[((k - 1) \div Len(DepAirports)) + 1]

RouteFlights(k, flights, late) ==
    [i \in 1..flights |->
        FlightRecord(i, Morning, Delta, RouteDep(k), RouteArr(k),
                     IF i <= late THEN 90 ELSE 5, "normal")]

NoiseChoices == {"none", "equal", "more"}

RouteTable(a, noise, international, extras) ==
    LET busy == a[1] + a[2] + a[3]
        quiet == CASE noise = "none" -> 0
                   [] noise = "equal" -> busy
                   [] noise = "more" -> busy + 1
        Late(k) == IF k <= a[1] THEN 2 ELSE IF k <= a[1] + a[2] THEN 1 ELSE 0
    IN  Flatten([k \in 1..busy |-> RouteFlights(k, 2, Late(k))])
        \o Flatten([k \in 1..quiet |-> RouteFlights(busy + k, 1, 1)])
        \o (IF international
            THEN <<FlightRecord(0, Morning, Delta, Dep("JFK"), Arr("CDG"), 90, "normal"),
                   FlightRecord(1, Morning, Delta, Dep("JFK"), Arr("CDG"), 61, "normal"),
                   FlightRecord(2, Morning, Delta, Dep("JFK"), Arr("CDG"), 60, "normal"),
                   FlightRecord(0, Morning, Delta, Dep("JFK"), Arr("YYZ"), 5, "normal")>>
            ELSE <<>>)
        \o (IF extras
            THEN <<FlightRecord(0, Morning, Delta, RouteDep(1), RouteArr(1), 90, "cancelled"),
                   FlightRecord(0, Morning, American, RouteDep(1), RouteArr(1), 90, "normal")>>
            ELSE <<>>)

RouteTables ==
    {RouteTable(a, noise, international, extras) :
        a \in [1..3 -> 0..MaxPerProfile], noise \in NoiseChoices,
        international \in BOOLEAN, extras \in BOOLEAN}

InitRoutes ==
    /\ flights_df \in RouteTables
    /\ columns = CsvColumns
    /\ call = NoCall
    /\ result = <<>>

NextRoutes == Call_top_delayed_routes

SpecRoutes == InitRoutes /\ [][NextRoutes]_vars

RowKey(r) == <<r.dep_iata, r.dep_airport, r.arr_iata, r.arr_airport>>

\* What the claims say of the table top_delayed_routes was called on,
\* counted from its rows: the rows in scope (the airline's, operational, to
\* the US iff domestic), their routes, each route's flight count and count
\* of flights over 60 minutes late, twice the median of the flight counts,
\* the routes strictly above the median, and for each of these the number
\* of them with a strictly greater delay rate.
RouteStats ==
    LET rows == {i \in DOMAIN flights_df :
                    /\ flights_df[i].airline = call.airline
                    /\ flights_df[i].flight_status \notin {"cancelled", "diverted"}
                    /\ (flights_df[i].arr_country = "US" <=> call.domestic)}
        routes == {RowKey(flights_df[i]) : i \in rows}
        flight_count == [k \in routes |->
                            Cardinality({i \in rows : RowKey(flights_df[i]) = k})]
        delay_count == [k \in routes |->
                           Cardinality({i \in rows :
                               RowKey(flights_df[i]) = k /\ flights_df[i].dep_delay > 60})]
        n == Cardinality(routes)
        values == {flight_count[k] : k \in routes}
        below == [v \in values |-> Cardinality({k \in routes : flight_count[k] < v})]
        upto == [v \in values |-> Cardinality({k \in routes : flight_count[k] <= v})]
        Nth(m) == CHOOSE v \in values : below[v] < m /\ m <= upto[v]
        twice_median == IF n % 2 = 1 THEN 2 * Nth((n + 1) \div 2)
                        ELSE Nth(n \div 2) + Nth(n \div 2 + 1)
        surviving == {k \in routes : 2 * flight_count[k] > twice_median}
        greater == [k \in surviving |->
                       Cardinality({l \in surviving :
                           delay_count[l] * flight_count[k]
                               > delay_count[k] * flight_count[l]})]
    IN  [rows |-> rows, routes |-> routes, flight_count |-> flight_count,
         delay_count |-> delay_count, surviving |-> surviving, greater |-> greater]

\* C5: every route top_delayed_routes returns has its flightCount (the
\* number of its rows in the airline- and country-scoped operational set,
\* delayCount being those over 60 minutes) strictly above the median of the
\* flightCounts of all routes of that set.
C5_OnlyRoutesAboveMedian ==
    call.fn = "top_delayed_routes" =>
        LET s == RouteStats
        IN  \A j \in DOMAIN result.top10 :
                LET r == result.top10[j]
                IN  /\ RowKey(r) \in s.routes
                    /\ r.flight_count = s.flight_count[RowKey(r)]
                    /\ r.delay_count = s.delay_count[RowKey(r)]
                    /\ RowKey(r) \in s.surviving

\* routes are returned while other routes of the scope, at or under the
\* median, are not, and a cancelled flight is on a returned route
C5_Witness ==
    /\ call.fn = "top_delayed_routes"
    /\ result.top10 # <<>>
    /\ LET s == RouteStats
       IN  /\ s.surviving # s.routes
           /\ \E i \in DOMAIN flights_df :
                 /\ flights_df[i].flight_status = "cancelled"
                 /\ RowKey(flights_df[i]) \in s.surviving

\* C6: the result of top_delayed_routes is in descending order of delayRate
\* and holds a route that passes the median filter exactly when fewer than
\* 10 such routes have a strictly greater delayRate (the top 10 with all
\* ties at the 10th place).
C6_Top10WithTies ==
    call.fn = "top_delayed_routes" =>
        LET top == result.top10
            s == RouteStats
            returned == {RowKey(top[j]) : j \in DOMAIN top}
        IN  /\ \A j \in 1..(Len(top) - 1) :
                  ~FLess(top[j].delay_rate, top[j + 1].delay_rate)
            /\ Cardinality(returned) = Len(top)
            /\ \A j \in DOMAIN top :
                  /\ RowKey(top[j]) \in s.surviving
                  /\ IsFinite(top[j].delay_rate)
                  /\ top[j].delay_rate[1] * s.flight_count[RowKey(top[j])]
                        = s.delay_count[RowKey(top[j])] * top[j].delay_rate[2]
            /\ \A k \in s.surviving : k \in returned <=> s.greater[k] < 10

\* more than 10 routes returned for a tie at the 10th place, and a route
\* that passed the median filter left out
C6_Witness ==
    /\ call.fn = "top_delayed_routes"
    /\ Len(result.top10) > 10
    /\ Cardinality(RouteStats.surviving) > Len(result.top10)

----------------------------------------------------------------------------
(* country_to_continent and flight_volume_by_day                           *)

LookupError == "LookupError"

KeyError == "KeyError"

\* raised by the .dt accessor on a column that is not datetimelike
AttributeError == "AttributeError"

\* pycountry.countries.lookup(country_name).alpha_2, on the names tried here:
\* a code or a name of a country is found, anything else raises
alpha_2_of(country_name) ==
    CASE country_name \in {"US", "United States"} -> "US"
      [] country_name \in {"CA", "Canada"} -> "CA"
      [] country_name = "FR" -> "FR"
      [] country_name = "AQ" -> "AQ"
      [] OTHER -> LookupError

\* pc.country_alpha2_to_continent_code, which knows no continent of AQ
continent_code_of(country_alpha2) ==
    CASE country_alpha2 \in {"US", "CA"} -> "NA"
      [] country_alpha2 = "FR" -> "EU"
      [] OTHER -> KeyError

\* pc.convert_continent_code_to_continent_name, then str.lower()
continent_name_lower(continent_code) ==
    CASE continent_code = "NA" -> "north america"
      [] continent_code = "EU" -> "europe"

\* the United States told by the looked-up code, instead of by the text
country_to_continent_by_alpha2(country_name) ==
    LET country_alpha2 == alpha_2_of(country_name)
        continent_code == continent_code_of(country_alpha2)
    IN  IF country_alpha2 = LookupError \/ continent_code = KeyError THEN "other"
        ELSE IF country_alpha2 = "US" THEN "usa"
        ELSE continent_name_lower(continent_code)

country_to_continent(country_name) ==
    LET country_alpha2 == alpha_2_of(country_name)
        continent_code == continent_code_of(country_alpha2)
    IN  IF country_alpha2 = LookupError \/ continent_code = KeyError THEN "other"
        ELSE IF country_name = "US" THEN "usa"
        ELSE continent_name_lower(continent_code)

weekday_order ==
    <<"Monday", "Tuesday", "Wednesday", "Thursday", "Friday", "Saturday", "Sunday">>

\* Series.dt.day_name() of a day counted from Monday 2024-01-01 (the .dt
\* accessor raises AttributeError on a column that still holds text)
day_name(flight_date) == weekday_order[(flight_date % 7) + 1]

\* the bars in the order of the trace: no categoryarray on the axis
bars_in_trace_order(grouped_df, categoryarray) == grouped_df

\* the bars along an x axis with categoryorder="array": by the place of
\* their category in categoryarray
bars_in_axis_order(grouped_df, categoryarray) ==
    LET Place(row) == CHOOSE i \in DOMAIN categoryarray :
                          categoryarray[i] = row.departure_day_of_week
    IN  Flatten([i \in DOMAIN categoryarray |->
                    SelectSeq(grouped_df, LAMBDA row : Place(row) = i)])

flight_volume_by_day(df, airline, region) ==
    LET filtered == SelectSeq(df, LAMBDA r : r.airline = airline /\ Operational(r))
        with_region ==
            [i \in DOMAIN filtered |->
                [c \in DOMAIN filtered[i] \cup {"region", "departure_day_of_week"} |->
                    IF c = "region" THEN country_to_continent(filtered[i].arr_country)
                    ELSE IF c = "departure_day_of_week" THEN day_name(filtered[i].flight_date)
                    ELSE filtered[i][c]]]
        flights_copy == IF region # "world"
                        THEN SelectSeq(with_region, LAMBDA r : r.region = region)
                        ELSE with_region
        days == GroupKeys(flights_copy, <<"departure_day_of_week">>)
        grouped_df ==
            [i \in DOMAIN days |->
                [departure_day_of_week |-> days[i][1],
                 flights_count |->
                     Len(Group(flights_copy, <<"departure_day_of_week">>, days[i]))]]
    IN  IF ~is_datetime64(df) THEN [raised |-> AttributeError]
        ELSE [with_region |-> with_region,
              grouped_df |-> grouped_df,
              categoryarray |-> weekday_order,
              bars |-> bars_in_axis_order(grouped_df, weekday_order)]

\* regions of the selectbox of main
Regions == {"world", "usa", "north america", "europe"}

Call_flight_volume_by_day ==
    \E airline \in Airlines, region \in Regions :
        /\ call' = [fn |-> "flight_volume_by_day", airline |-> airline, region |-> region]
        /\ result' = flight_volume_by_day(flights_df, airline, region)
        /\ UNCHANGED <<flights_df, columns>>

----------------------------------------------------------------------------
(* SpecVolume: flight_volume_by_day on tables of flights to the US, to     *)
(* other countries and to countries the lookup does not resolve, on        *)
(* several weekdays.                                                       *)

To(row, country) == [row EXCEPT !.arr_country = country]

VolumeKinds ==
    <<FlightRecord(0, Morning, Delta, Dep("ATL"), Arr("LAX"), 5, "normal"),
      FlightRecord(4, Morning, Delta, Dep("ATL"), Arr("LAX"), 5, "normal"),
      FlightRecord(7, Morning, Delta, Dep("ATL"), Arr("YYZ"), 5, "normal"),
      FlightRecord(2, Morning, Delta, Dep("JFK"), Arr("CDG"), 5, "normal"),
      To(FlightRecord(6, Morning, Delta, Dep("ATL"), Arr("MIA"), 5, "normal"),
         "United States"),
      To(FlightRecord(1, Morning, Delta, Dep("ATL"), Arr("MIA"), 5, "normal"), "XX"),
      To(FlightRecord(3, Morning, Delta, Dep("ATL"), Arr("MIA"), 5, "normal"), "AQ"),
      FlightRecord(0, Morning, Delta, Dep("ATL"), Arr("LAX"), 5, "cancelled"),
      FlightRecord(4, Morning, American, Dep("ATL"), Arr("LAX"), 5, "normal")>>

InitVolume ==
    /\ flights_df \in Tables(VolumeKinds, MaxVolCopies)
    /\ columns = CsvColumns
    /\ call = NoCall
    /\ result = <<>>

NextVolume == Call_flight_volume_by_day

SpecVolume == InitVolume /\ [][NextVolume]_vars

MondayFirst ==
    <<"Monday", "Tuesday", "Wednesday", "Thursday", "Friday", "Saturday", "Sunday">>

\* the rows of the table flight_volume_by_day was called on that it keeps
\* before the region filter
VolumeRows ==
    {i \in DOMAIN flights_df :
        /\ flights_df[i].airline = call.airline
        /\ flights_df[i].flight_status \notin {"cancelled", "diverted"}}

LookupFails == {"XX", "AQ"}

\* C10: with region 'usa', flight_volume_by_day counts only the rows whose
\* arr_country is exactly 'US'; the classifier gives 'usa' for 'US' and for
\* no other input and 'other' when the lookup fails; with region 'world' no
\* region filter is applied.
C10_UsaIsExactlyUS ==
    call.fn = "flight_volume_by_day" =>
        LET Total == SumSeq([j \in DOMAIN result.grouped_df |->
                                result.grouped_df[j].flights_count])
        IN  /\ \A i \in DOMAIN result.with_region :
                  LET r == result.with_region[i]
                  IN  /\ r.region = "usa" <=> r.arr_country = "US"
                      /\ r.arr_country \in LookupFails => r.region = "other"
            /\ Len(result.with_region) = Cardinality(VolumeRows)
            /\ (call.region = "usa" =>
                  Total = Cardinality({i \in VolumeRows : flights_df[i].arr_country = "US"}))
            /\ (call.region = "world" => Total = Cardinality(VolumeRows))

\* region 'usa' on a table with flights to the US, to Canada, to a country
\* written 'United States' and to a country the lookup does not know
C10_Witness ==
    /\ call.fn = "flight_volume_by_day"
    /\ call.region = "usa"
    /\ \E j \in DOMAIN result.grouped_df : result.grouped_df[j].flights_count >= 1
    /\ \A c \in {"US", "CA", "United States", "XX", "AQ"} :
          \E i \in VolumeRows : flights_df[i].arr_country = c

----------------------------------------------------------------------------
(* extract_hour and peak_hour_delays                                       *)

NaT == [valid |-> FALSE, day |-> 0, hour |-> 0, minute |-> 0]

\* pd.to_datetime(text, errors="coerce") on the texts tried here
to_datetime_coerce(text) ==
    CASE text = Morning -> [valid |-> TRUE, day |-> 0, hour |-> 6, minute |-> 30]
      [] text = Evening -> [valid |-> TRUE, day |-> 4, hour |-> 17, minute |-> 5]
      [] OTHER -> NaT

\* Series.dt.hour: NaN of NaT
dt_hour(t) == IF t.valid THEN F(t.hour) ELSE NaN

extract_hour(df) ==
    [i \in DOMAIN df |->
        LET parsed == to_datetime_coerce(df[i].scheduled_departure_datetime)
        IN  [c \in DOMAIN df[i] \cup {"hour"} |->
                IF c = "scheduled_departure_datetime" THEN parsed
                ELSE IF c = "hour" THEN dt_hour(parsed)
                ELSE df[i][c]]]

peak_hour_delays(df, airline) ==
    LET filtered == SelectSeq(df, LAMBDA r : r.airline = airline /\ Operational(r))
        flights_copy ==
            [i \in DOMAIN filtered |->
                [c \in DOMAIN filtered[i] \cup {"country_group"} |->
                    IF c = "country_group"
                    THEN (IF filtered[i].arr_country = "US" THEN "Domestic"
                          ELSE "International")
                    ELSE filtered[i][c]]]
        delayed_flights == SelectSeq(flights_copy, LAMBDA r : r.dep_delay > 15)
        pairs == GroupKeys(delayed_flights, <<"hour", "country_group">>)
        hours == GroupKeys(flights_copy, <<"hour">>)
    IN  [grouped_counts |->
            [i \in DOMAIN pairs |->
                [hour |-> pairs[i][1],
                 country_group |-> pairs[i][2],
                 delayed_flight_count |->
                     Len(Group(delayed_flights, <<"hour", "country_group">>, pairs[i]))]],
         total_flights_by_hour |->
            [i \in DOMAIN hours |->
                [hour |-> hours[i][1],
                 total_flight_count |-> Len(Group(flights_copy, <<"hour">>, hours[i]))]]]

\* filtered_df = extract_hour(filtered_df) of main: the name is bound to the
\* copy with the hour column
Call_extract_hour ==
    /\ "hour" \notin columns
    /\ flights_df' = extract_hour(flights_df)
    /\ columns' = columns \cup {"hour"}
    /\ call' = [fn |-> "extract_hour"]
    /\ result' = <<>>

\* peak_hour_delays groups by the hour column, which extract_hour adds
Call_peak_hour_delays ==
    \E airline \in Airlines :
        /\ "hour" \in columns
        /\ call' = [fn |-> "peak_hour_delays", airline |-> airline]
        /\ result' = peak_hour_delays(flights_df, airline)
        /\ UNCHANGED <<flights_df, columns>>

----------------------------------------------------------------------------
(* map                                                                     *)

MapCols == <<"arr_latitude", "arr_longitude", "arr_airport">>

map(df, airline, scope) ==
    LET filtered_df == SelectSeq(df, LAMBDA r : r.airline = airline /\ Operational(r))
        places == GroupKeys(filtered_df, MapCols)
    IN  [scope |-> scope,
         agg_df |->
            [i \in DOMAIN places |->
                [arr_latitude |-> places[i][1],
                 arr_longitude |-> places[i][2],
                 arr_airport |-> places[i][3],
                 dep_delay |-> Mean(Column(Group(filtered_df, MapCols, places[i]),
                                           "dep_delay")),
                 flight_count |-> Len(Group(filtered_df, MapCols, places[i]))]]]

Scopes == {"world", "usa"}

Call_map ==
    \E airline \in Airlines, scope \in Scopes :
        /\ call' = [fn |-> "map", airline |-> airline, scope |-> scope]
        /\ result' = map(flights_df, airline, scope)
        /\ UNCHANGED <<flights_df, columns>>

----------------------------------------------------------------------------
(* Spec: every delay aggregator of the dashboard on tables that mix        *)
(* operational, cancelled and diverted flights of two airlines.            *)

Kinds ==
    <<FlightRecord(0, Morning, Delta, Dep("ATL"), Arr("LAX"), 5, "normal"),
      FlightRecord(4, Evening, Delta, Dep("ATL"), Arr("LAX"), 90, "normal"),
      FlightRecord(0, Morning, Delta, Dep("ATL"), Arr("LAX"), 90, "cancelled"),
      FlightRecord(4, Evening, Delta, Dep("ATL"), Arr("LAX"), 200, "diverted"),
      FlightRecord(1, Unparsable, Delta, Dep("JFK"), Arr("CDG"), 20, "normal"),
      FlightRecord(1, Evening, Delta, Dep("JFK"), Arr("CDG"), 90, "diverted"),
      FlightRecord(4, Evening, American, Dep("ATL"), Arr("LAX"), 90, "normal")>>

Init ==
    /\ flights_df \in Tables(Kinds, MaxCopies)
    /\ columns = CsvColumns
    /\ call = NoCall
    /\ result = <<>>

Next ==
    \/ Call_aggregate_delay_metric
    \/ Call_delays_heatmap
    \/ Call_relative_delay
    \/ Call_top_delayed_routes
    \/ Call_extract_hour
    \/ Call_peak_hour_delays
    \/ Call_flight_volume_by_day
    \/ Call_map

Spec == Init /\ [][Next]_vars

DelayAggregators ==
    {"aggregate_delay_metric", "delays_heatmap", "relative_delay", "top_delayed_routes",
     "peak_hour_delays", "flight_volume_by_day", "map"}

\* the output of the aggregator last called, with the same arguments, on
\* table df
Recomputed(df) ==
    CASE call.fn = "aggregate_delay_metric" ->
            aggregate_delay_metric(df, call.groupby_col, call.arr_iata)
      [] call.fn = "delays_heatmap" -> delays_heatmap(df, call.var, call.airline)
      [] call.fn = "relative_delay" -> relative_delay(df, call.airline)
      [] call.fn = "top_delayed_routes" ->
            top_delayed_routes(df, call.airline, call.domestic)
      [] call.fn = "peak_hour_delays" -> peak_hour_delays(df, call.airline)
      [] call.fn = "flight_volume_by_day" ->
            flight_volume_by_day(df, call.airline, call.region)
      [] call.fn = "map" -> map(df, call.airline, call.scope)

NonOperational(r) == r.flight_status \in {"cancelled", "diverted"}

\* cancelled and diverted rows to add to the table: one like each of its
\* rows, and ones of an airport pair of their own
ExtraRows ==
    LET fresh == FlightRecord(2, Morning, Delta, Dep("BOS"), Arr("YYZ"), 300, "normal")
        shaped == IF "hour" \in columns THEN extract_hour(<<fresh>>)[1] ELSE fresh
    IN  {[r EXCEPT !.flight_status = s] :
            r \in Range(flights_df) \cup {shaped}, s \in {"cancelled", "diverted"}}

\* C1: no cancelled or diverted row contributes to the output of a delay
\* aggregator (aggregate_delay_metric, delays_heatmap, relative_delay,
\* top_delayed_routes, peak_hour_delays, flight_volume_by_day, map): the
\* output is the same with such a row added to the table, with any such row
\* of the table removed, and with all of them removed.
C1_NonOperationalRowsDoNotCount ==
    call.fn \in DelayAggregators =>
        /\ \A r \in ExtraRows : Recomputed(Append(flights_df, r)) = result
        /\ \A i \in DOMAIN flights_df :
              NonOperational(flights_df[i]) => Recomputed(Drop(flights_df, i)) = result
        /\ Recomputed(SelectSeq(flights_df, LAMBDA r : ~NonOperational(r))) = result

\* an aggregator called for the airline of a table that holds operational,
\* cancelled and diverted flights of that airline, with a non-empty output
C1_Witness ==
    /\ call.fn = "peak_hour_delays"
    /\ call.airline = Delta
    /\ result.grouped_counts # <<>>
    /\ \A s \in {"normal", "cancelled", "diverted"} :
          \E i \in DOMAIN flights_df :
              flights_df[i].airline = Delta /\ flights_df[i].flight_status = s

----------------------------------------------------------------------------
(* select_date                                                             *)

\* the table the caller passed, as line 18 leaves it, and the table returned
select_date(df, start_date, end_date) ==
    LET converted ==
            [i \in DOMAIN df |->
                [df[i] EXCEPT !.flight_date = pd_to_datetime(df[i].flight_date)]]
        filtered_df ==
            IF start_date = end_date
            THEN SelectSeq(converted, LAMBDA r : r.flight_date = start_date)
            ELSE SelectSeq(converted, LAMBDA r : /\ r.flight_date >= start_date
                                                 /\ r.flight_date <= end_date)
    IN  [flights_df |-> converted, filtered_df |-> filtered_df]

\* the dates of the date input of main, as day numbers
Dates == 0..MaxDate

\* the assignment of line 18 writes the column of the caller's table
Call_select_date ==
    \E start_date \in Dates, end_date \in Dates :
        /\ call' = [fn |-> "select_date", start_date |-> start_date,
                    end_date |-> end_date]
        /\ flights_df' = select_date(flights_df, start_date, end_date).flights_df
        /\ result' = select_date(flights_df, start_date, end_date).filtered_df
        /\ UNCHANGED columns

----------------------------------------------------------------------------
(* cancelled_flights                                                       *)

\* cancelled, whatever the airline
cancelled_of_any_airline(r, airline) == r.flight_status = "cancelled"

cancelled_of(r, airline) == r.flight_status = "cancelled" /\ r.airline = airline

\* rows in descending order of flight_count; rows of equal count keep the
\* order they had
RECURSIVE sort_by_flight_count(_)
sort_by_flight_count(rows) ==
    IF rows = <<>> THEN <<>>
    ELSE LET Top(x) == \A y \in DOMAIN rows : rows[x].flight_count >= rows[y].flight_count
             i == CHOOSE x \in DOMAIN rows : Top(x) /\ \A y \in 1..(x - 1) : ~Top(y)
         IN  <<rows[i]>> \o sort_by_flight_count(Drop(rows, i))

DepCols == <<"dep_iata", "dep_airport">>

\* agg_df, the table the pie chart is drawn from; the count of flight_date
\* is the size of the group, as no flight_date is missing
cancelled_flights(df, airline) ==
    LET cancelled == SelectSeq(df, LAMBDA r : cancelled_of(r, airline))
        keys == GroupKeys(cancelled, DepCols)
    IN  [agg_df |->
            sort_by_flight_count(
                [i \in DOMAIN keys |->
                    [dep_iata |-> keys[i][1],
                     dep_airport |-> keys[i][2],
                     flight_count |-> Len(Group(cancelled, DepCols, keys[i]))]])]

Call_cancelled_flights ==
    \E airline \in Airlines :
        /\ call' = [fn |-> "cancelled_flights", airline |-> airline]
        /\ result' = cancelled_flights(flights_df, airline)
        /\ UNCHANGED <<flights_df, columns>>

----------------------------------------------------------------------------
(* SpecSession: the operations called, in any order, on one table as       *)
(* load_data returns it: flight_date holds the text of the csv until an    *)
(* operation writes the column.  The tables have at least one row.         *)

LoadedKinds ==
    <<FlightRecord(20240101, Morning, Delta, Dep("ATL"), Arr("LAX"), 5, "normal"),
      FlightRecord(20240102, Evening, Delta, Dep("ATL"), Arr("LAX"), 90, "normal"),
      FlightRecord(20240103, Morning, Delta, Dep("JFK"), Arr("CDG"), 20, "cancelled"),
      FlightRecord(20240201, Unparsable, American, Dep("ATL"), Arr("LAX"), 90, "normal")>>

InitSession ==
    /\ flights_df \in Tables(LoadedKinds, MaxLoadedCopies) \ {<<>>}
    /\ columns = CsvColumns
    /\ call = NoCall
    /\ result = <<>>

\* extract_hour called on the table: what it returns is a copy (line 288)
Call_extract_hour_of_table ==
    /\ call' = [fn |-> "extract_hour"]
    /\ result' = extract_hour(flights_df)
    /\ UNCHANGED <<flights_df, columns>>

NextSession ==
    \/ Call_select_date
    \/ Call_extract_hour_of_table
    \/ Call_cancelled_flights
    \/ Call_aggregate_delay_metric
    \/ Call_delays_heatmap
    \/ Call_relative_delay
    \/ Call_top_delayed_routes
    \/ Call_flight_volume_by_day
    \/ Call_map

SpecSession == InitSession /\ [][NextSession]_vars

\* C11: every operation (select_date, extract_hour and each aggregator)
\* leaves the table it is called on unchanged: no step of a sequence of
\* calls on the same table changes its rows, its columns or a cell value.
C11_OperationsLeaveTableUnchanged ==
    [][flights_df' = flights_df /\ columns' = columns]_vars

----------------------------------------------------------------------------
(* SpecCancelled: cancelled_flights on tables with a cancelled flights of  *)
(* Delta from Atlanta and b from New York, and any of four blocks of other *)
(* rows: flights that were not cancelled, cancelled flights of another     *)
(* airline, a diverted flight from a third airport, and a cancelled flight *)
(* from Atlanta under another airport name.                                *)

CancelledBlocks == {"normal", "other_airline", "diverted", "renamed"}

CancelledBlock(name) ==
    CASE name = "normal" ->
            <<FlightRecord(0, Morning, Delta, Dep("ATL"), Arr("LAX"), 5, "normal"),
              FlightRecord(1, Morning, Delta, Dep("JFK"), Arr("LAX"), 90, "normal"),
              FlightRecord(4, Evening, Delta, Dep("JFK"), Arr("CDG"), 5, "normal")>>
      [] name = "other_airline" ->
            Copies(FlightRecord(1, Morning, American, Dep("JFK"), Arr("LAX"), 5,
                                "cancelled"), 3)
      [] name = "diverted" ->
            <<FlightRecord(2, Morning, Delta, Dep("BOS"), Arr("LAX"), 5, "diverted")>>
      [] name = "renamed" ->
            <<FlightRecord(3, Evening, Delta,
                           [iata |-> "ATL", name |-> "Hartsfield-Jackson"],
                           Arr("MIA"), 5, "cancelled")>>

CancelledTable(a, b, blocks) ==
    Copies(FlightRecord(0, Morning, Delta, Dep("ATL"), Arr("LAX"), 5, "cancelled"), a)
    \o (IF "normal" \in blocks THEN CancelledBlock("normal") ELSE <<>>)
    \o (IF "other_airline" \in blocks THEN CancelledBlock("other_airline") ELSE <<>>)
    \o Copies(FlightRecord(4, Evening, Delta, Dep("JFK"), Arr("CDG"), 90, "cancelled"), b)
    \o (IF "diverted" \in blocks THEN CancelledBlock("diverted") ELSE <<>>)
    \o (IF "renamed" \in blocks THEN CancelledBlock("renamed") ELSE <<>>)

InitCancelled ==
    /\ flights_df \in {CancelledTable(a, b, blocks) :
                          a \in 0..MaxCancelled, b \in 0..MaxCancelled,
                          blocks \in SUBSET CancelledBlocks}
    /\ columns = CsvColumns
    /\ call = NoCall
    /\ result = <<>>

NextCancelled == Call_cancelled_flights

SpecCancelled == InitCancelled /\ [][NextCancelled]_vars

\* the (dep_iata, dep_airport) pair of a row
DepPair(r) == <<r.dep_iata, r.dep_airport>>

\* C12: the table built by cancelled_flights has one row per (dep_iata,
\* dep_airport) pair with at least one cancelled flight of the target
\* airline and no other row; its flight_count is the number of cancelled
\* rows of that airline with that pair; the rows are in descending order of
\* flight_count.
C12_CancelledCountsPerAirport ==
    call.fn = "cancelled_flights" =>
        LET agg_df == result.agg_df
            Counted(p) ==
                {i \in DOMAIN flights_df :
                    /\ flights_df[i].flight_status = "cancelled"
                    /\ flights_df[i].airline = call.airline
                    /\ DepPair(flights_df[i]) = p}
            Pairs == {DepPair(flights_df[i]) : i \in DOMAIN flights_df}
        IN  /\ \A p \in Pairs :
                  Cardinality({j \in DOMAIN agg_df : DepPair(agg_df[j]) = p})
                      = IF Counted(p) # {} THEN 1 ELSE 0
            /\ \A j \in DOMAIN agg_df :
                  /\ DepPair(agg_df[j]) \in Pairs
                  /\ agg_df[j].flight_count = Cardinality(Counted(DepPair(agg_df[j])))
            /\ \A j, k \in DOMAIN agg_df :
                  j < k => agg_df[j].flight_count >= agg_df[k].flight_count

\* cancelled_flights for Delta on a table with 2 cancellations at Atlanta
\* and 10 at New York next to flights that were not cancelled and to
\* cancellations of another airline: New York comes first with 10
C12_Witness ==
    /\ call.fn = "cancelled_flights"
    /\ call.airline = Delta
    /\ Len(result.agg_df) = 3
    /\ result.agg_df[1] = [dep_iata |-> "JFK", dep_airport |-> "New York",
                           flight_count |-> 10]
    /\ result.agg_df[2] = [dep_iata |-> "ATL", dep_airport |-> "Atlanta",
                           flight_count |-> 2]
    /\ \E i \in DOMAIN flights_df :
          flights_df[i].airline = American /\ flights_df[i].flight_status = "cancelled"
    /\ \E i \in DOMAIN flights_df :
          flights_df[i].airline = Delta /\ flights_df[i].flight_status = "normal"

----------------------------------------------------------------------------
(* SpecHourly: extract_hour, then peak_hour_delays, on tables of flights   *)
(* at two hours, domestic and international, up to and over 15 minutes     *)
(* late, with rows whose departure time is not a timestamp, of a cancelled *)
(* flight and of another airline.                                          *)

HourlyKinds ==
    <<FlightRecord(0, Morning, Delta, Dep("ATL"), Arr("LAX"), 5, "normal"),
      FlightRecord(0, Morning, Delta, Dep("ATL"), Arr("LAX"), 90, "normal"),
      FlightRecord(0, Morning, Delta, Dep("JFK"), Arr("CDG"), 90, "normal"),
      FlightRecord(4, Evening, Delta, Dep("JFK"), Arr("YYZ"), 16, "normal"),
      FlightRecord(4, Evening, Delta, Dep("ATL"), Arr("LAX"), 15, "normal"),
      FlightRecord(1, Unparsable, Delta, Dep("ATL"), Arr("LAX"), 90, "normal"),
      FlightRecord(4, Evening, Delta, Dep("ATL"), Arr("LAX"), 90, "cancelled"),
      FlightRecord(0, Morning, American, Dep("ATL"), Arr("LAX"), 90, "normal")>>

InitHourly ==
    /\ flights_df \in Tables(HourlyKinds, MaxHourCopies)
    /\ columns = CsvColumns
    /\ call = NoCall
    /\ result = <<>>

NextHourly ==
    \/ Call_extract_hour
    \/ Call_peak_hour_delays

SpecHourly == InitHourly /\ [][NextHourly]_vars

Hours == 0..23

CountryGroups == {"Domestic", "International"}

\* the operational rows of the airline whose departure time is the
\* timestamp of an hour h, in the table extract_hour prepared
FlownAt(airline, h) ==
    {i \in DOMAIN flights_df :
        /\ flights_df[i].airline = airline
        /\ flights_df[i].flight_status \notin {"cancelled", "diverted"}
        /\ flights_df[i].scheduled_departure_datetime.valid
        /\ flights_df[i].scheduled_departure_datetime.hour = h}

\* those of them over 15 minutes late, Domestic being the flights to the US
DelayedAt(airline, h, group) ==
    {i \in FlownAt(airline, h) :
        /\ flights_df[i].dep_delay > 15
        /\ (group = "Domestic") <=> (flights_df[i].arr_country = "US")}

\* both outputs of peak_hour_delays count exactly the rows of an hour
HourlyCountsExact ==
    call.fn = "peak_hour_delays" =>
        LET total == result.total_flights_by_hour
            delayed == result.grouped_counts
            DelayedRows(h) == SelectSeq(delayed, LAMBDA row : row.hour = F(h))
        IN  /\ \A h \in Hours :
                  Cardinality({j \in DOMAIN total : total[j].hour = F(h)})
                      = IF FlownAt(call.airline, h) # {} THEN 1 ELSE 0
            /\ \A j \in DOMAIN total :
                  \E h \in Hours :
                      /\ total[j].hour = F(h)
                      /\ total[j].total_flight_count
                            = Cardinality(FlownAt(call.airline, h))
            /\ \A h \in Hours, g \in CountryGroups :
                  Cardinality({j \in DOMAIN delayed :
                                  delayed[j].hour = F(h) /\ delayed[j].country_group = g})
                      = IF DelayedAt(call.airline, h, g) # {} THEN 1 ELSE 0
            /\ \A j \in DOMAIN delayed :
                  \E h \in Hours, g \in CountryGroups :
                      /\ delayed[j].hour = F(h)
                      /\ delayed[j].country_group = g
                      /\ delayed[j].delayed_flight_count
                            = Cardinality(DelayedAt(call.airline, h, g))
            /\ \A h \in Hours :
                  SumSeq(Column(DelayedRows(h), "delayed_flight_count"))
                      <= Cardinality(FlownAt(call.airline, h))

\* extract_hour gives a row whose departure time is not a timestamp no hour
UnparsableHasNoHour ==
    call'.fn = "extract_hour" =>
        /\ Len(flights_df') = Len(flights_df)
        /\ \A i \in DOMAIN flights_df :
              IF flights_df[i].scheduled_departure_datetime = Unparsable
              THEN /\ ~flights_df'[i].scheduled_departure_datetime.valid
                   /\ IsNaN(flights_df'[i].hour)
              ELSE /\ flights_df'[i].scheduled_departure_datetime.valid
                   /\ ~IsNaN(flights_df'[i].hour)

\* C13: in peak_hour_delays on a table prepared by extract_hour, a row whose
\* scheduled_departure_datetime cannot be parsed is counted under no hour in
\* either output; the total-count table has an entry for hour h exactly when
\* an operational row of the airline has hour h, with the number of such
\* rows; the delayed-count table has, per (hour, Domestic/International),
\* the number of those rows with dep_delay > 15, Domestic being arr_country
\* "US"; the delayed counts of an hour never sum to more than its total.
C13_HourlyCountsSkipUnparsable ==
    []HourlyCountsExact /\ [][UnparsableHasNoHour]_vars

\* peak_hour_delays for Delta on a prepared table that holds a late Delta
\* flight without a parsable departure time: hour 6 has delayed flights of
\* both groups and more flights than delayed ones, hour 17 has two flights,
\* one just over 15 minutes late and one at 15
C13_Witness ==
    /\ call.fn = "peak_hour_delays"
    /\ call.airline = Delta
    /\ \E i \in DOMAIN flights_df :
          /\ ~flights_df[i].scheduled_departure_datetime.valid
          /\ flights_df[i].airline = Delta
          /\ flights_df[i].flight_status = "normal"
          /\ flights_df[i].dep_delay > 15
    /\ result.total_flights_by_hour =
          <<[hour |-> F(6), total_flight_count |-> 3],
            [hour |-> F(17), total_flight_count |-> 2]>>
    /\ result.grouped_counts =
          <<[hour |-> F(6), country_group |-> "Domestic", delayed_flight_count |-> 1],
            [hour |-> F(6), country_group |-> "International", delayed_flight_count |-> 1],
            [hour |-> F(17), country_group |-> "International",
             delayed_flight_count |-> 1]>>

=============================================================================
